---- MODULE Spec2Model ----
(***************************************************************************)
(* Media acquisition pipeline of the Unified API Server                    *)
(* (services/yt_dlp): option building, probe + retried download, result    *)
(* classification, the job table, file serving and eviction.               *)
(*                                                                         *)
(* Strings are sequences of one-character strings, so that str.replace,    *)
(* str.lstrip, str.startswith and pathlib's parsing are computed the way   *)
(* Python computes them.  A path is the sequence of its components         *)
(* (each a string) below the filesystem root; POSIX semantics.             *)
(***************************************************************************)
EXTENDS Integers, Sequences, FiniteSets, TLC

VARIABLES
    reqTemplate, \* build_ydl_opts: request.output_template (NoneVal or a string)
    optsJob,    \* build_ydl_opts: the download_id whose output_dir is passed
    opts,        \* build_ydl_opts: the options returned (NoOpts before the call)
    reqLimits,   \* build_ydl_opts: request.rate_limit, max_filesize, min_filesize
    sizeStr,     \* _parse_size: the argument of a direct call
    sizeOut,     \* _parse_size: what the call gave (NoSize before the call)
    reqFormat,   \* build_ydl_opts: the format and post-processing fields of the
                 \* request, and whether FFmpeg is installed
    jobs,        \* per download_id: where its request is and what it has produced
    active_downloads, \* endpoints._active_downloads: download_id -> directory
    dirs,        \* the filesystem: the directories that exist (resolved paths)
    files,       \* the filesystem: the regular files that exist (resolved paths)
    nextId       \* index of the next download_id to be minted

optVars == <<reqTemplate, optsJob, opts, reqLimits, sizeStr, sizeOut, reqFormat>>
jobVars == <<jobs, active_downloads, dirs, files, nextId>>

\* ------------------------------------------------------------------------
\* Bounds of the model
\* ------------------------------------------------------------------------
\* longest output_template string enumerated
MaxTemplateLen == 6
\* number of download requests (job IDs) in one behaviour
MaxJobs == 1
\* longest size string enumerated
MaxSizeLen == 4

\* ------------------------------------------------------------------------
\* Python str / pathlib helpers
\* ------------------------------------------------------------------------
\* Python's None where a string or a path is expected (no string equals it)
NoneVal == <<"None">>
\* the options before build_ydl_opts has returned
\* the request fields that carry a size string, and the option each sets
LimitFields == {"rate_limit", "max_filesize", "min_filesize"}
OptionKey(field) == IF field = "rate_limit" THEN "ratelimit" ELSE field
LimitKeys == {OptionKey(field) : field \in LimitFields}
\* an option key that is not in the dict
Absent == [set |-> FALSE, value |-> 0]
NoOpts ==
    [built |-> FALSE, raised |-> "none", outtmpl |-> NoneVal,
     limits |-> [key \in LimitKeys |-> Absent],
     format |-> <<>>, merge_output_format |-> "", postprocessors |-> <<>>]
\* an Optional request field left at None
Unset == "None"
\* the format and post-processing fields at their defaults (models.py),
\* on a host with FFmpeg
DefaultFormat ==
    [format |-> Unset, extract_audio |-> FALSE, quality |-> "720p",
     audio_format |-> Unset, audio_quality |-> Unset, video_codec |-> Unset,
     embed_thumbnail |-> FALSE, add_metadata |-> TRUE, ffmpeg |-> TRUE]
\* a request without download limits
NoLimits == [field \in LimitFields |-> NoneVal]
\* _parse_size not called yet
NoSize == [done |-> FALSE, raised |-> "none", warned |-> FALSE, value |-> 0]

\* str.startswith
StartsWith(s, p) == Len(p) <= Len(s) /\ SubSeq(s, 1, Len(p)) = p

RECURSIVE ReplaceDotDot(_)
\* s.replace("..", ""): one left-to-right pass over non-overlapping matches
ReplaceDotDot(s) ==
    IF Len(s) < 2 THEN s
    ELSE IF s[1] = "." /\ s[2] = "." THEN ReplaceDotDot(Tail(Tail(s)))
    ELSE <<s[1]>> \o ReplaceDotDot(Tail(s))

RECURSIVE LStrip(_, _)
\* s.lstrip(c) for a one-character c
LStrip(s, c) == IF s # <<>> /\ s[1] = c THEN LStrip(Tail(s), c) ELSE s

RECURSIVE SplitSlash(_)
\* s.split("/"): the components between separators, empty ones included
SplitSlash(s) ==
    IF s = <<>> THEN << <<>> >>
    ELSE LET rest == SplitSlash(Tail(s))
         IN IF s[1] = "/" THEN << <<>> >> \o rest
            ELSE << <<s[1]>> \o rest[1] >> \o Tail(rest)

DOT == <<".">>
DOTDOT == <<".", ".">>

KeepComponent(c) == c # <<>> /\ c # DOT

\* PurePosixPath(s): rooted or not, and the components with empty and "."
\* components dropped (".." is kept)
ParsePath(s) ==
    [abs |-> s # <<>> /\ s[1] = "/",
     parts |-> SelectSeq(SplitSlash(s), KeepComponent)]

\* dir / s for an absolute dir: a rooted right operand replaces the left one
JoinPath(dir, s) ==
    LET p == ParsePath(s) IN IF p.abs THEN p.parts ELSE dir \o p.parts

RECURSIVE ResolveFrom(_, _)
ResolveFrom(done, parts) ==
    IF parts = <<>> THEN done
    ELSE IF parts[1] = DOTDOT
         THEN ResolveFrom(IF done = <<>> THEN <<>> ELSE SubSeq(done, 1, Len(done) - 1),
                          Tail(parts))
         ELSE ResolveFrom(Append(done, parts[1]), Tail(parts))

\* Path.resolve() of an absolute path in a filesystem without symlinks
Resolve(parts) == ResolveFrom(<<>>, parts)

RECURSIVE Str(_)
\* str(path) of an absolute path
Str(parts) ==
    IF parts = <<>> THEN <<"/">>
    ELSE IF Len(parts) = 1 THEN <<"/">> \o parts[1]
    ELSE Str(SubSeq(parts, 1, Len(parts) - 1)) \o <<"/">> \o parts[Len(parts)]

\* p is d or a descendant of d (component-wise, both resolved)
IsInside(p, d) == Len(d) <= Len(p) /\ SubSeq(p, 1, Len(d)) = d

\* ------------------------------------------------------------------------
\* Configuration
\* ------------------------------------------------------------------------
\* config.OUTPUT_DIR, as the absolute directory it names
OUTPUT_DIR == << <<"r">> >>
\* config.RETRY_ATTEMPTS
RETRY_ATTEMPTS == 3

IdChar == <<"j", "k", "l", "m">>
\* the download_id minted for the n-th accepted request (all IDs have one
\* length, as the 16 hex digits of the source have)
DownloadId(n) == <<IdChar[n]>>
JobIds == {DownloadId(n) : n \in 1..MaxJobs}
\* a download_id of the same shape that no request of the behaviour is given
NeverMinted == DownloadId(MaxJobs + 1)

\* OUTPUT_DIR / download_id
JobDir(id) == Append(OUTPUT_DIR, id)

\* ------------------------------------------------------------------------
\* config_builder.build_ydl_opts: the output template
\* ------------------------------------------------------------------------
\* yt-dlp field expressions, each carried as one symbol
TITLE_EXT == << <<"%(title)s.%(ext)s">> >>
TITLE_200B_EXT == << <<"%(title).200B.%(ext)s">> >>

\* opts["outtmpl"], as the path it names
Outtmpl(output_template, output_dir) ==
    IF output_template # NoneVal /\ output_template # <<>>
    THEN LET template == LStrip(LStrip(ReplaceDotDot(output_template), "/"), "\\")
             resolved == Resolve(JoinPath(output_dir, template))
         IN IF ~StartsWith(Str(resolved), Str(Resolve(output_dir)))
            THEN output_dir \o TITLE_EXT
            ELSE JoinPath(output_dir, template)
    ELSE output_dir \o TITLE_200B_EXT

\* ------------------------------------------------------------------------
\* config_builder._parse_size and the download limits
\* ------------------------------------------------------------------------
\* str.upper, on the letters that occur in the model
UpperChar(c) ==
    CASE c = "k" -> "K" [] c = "m" -> "M" [] c = "g" -> "G" [] c = "i" -> "I"
      [] c = "n" -> "N" [] c = "f" -> "F" [] c = "a" -> "A" [] OTHER -> c
Upper(s) == [i \in 1..Len(s) |-> UpperChar(s[i])]

WHITESPACE == {" "}
RECURSIVE LStripSpace(_)
LStripSpace(s) == IF s # <<>> /\ s[1] \in WHITESPACE THEN LStripSpace(Tail(s)) ELSE s
RECURSIVE RStripSpace(_)
RStripSpace(s) ==
    IF s # <<>> /\ s[Len(s)] \in WHITESPACE THEN RStripSpace(SubSeq(s, 1, Len(s) - 1)) ELSE s
\* str.strip()
Strip(s) == RStripSpace(LStripSpace(s))

\* str.endswith for a one-character suffix
EndsWith(s, c) == s # <<>> /\ s[Len(s)] = c

DIGITS == {"0", "1", "2", "3", "4", "5", "6", "7", "8", "9"}
DigitValue(c) ==
    CASE c = "0" -> 0 [] c = "1" -> 1 [] c = "2" -> 2 [] c = "3" -> 3 [] c = "4" -> 4
      [] c = "5" -> 5 [] c = "6" -> 6 [] c = "7" -> 7 [] c = "8" -> 8 [] c = "9" -> 9
AllDigits(s) == \A i \in 1..Len(s) : s[i] \in DIGITS
RECURSIVE DecimalValue(_)
\* the number a string of digits denotes (0 for the empty string)
DecimalValue(s) ==
    IF s = <<>> THEN 0
    ELSE 10 * DecimalValue(SubSeq(s, 1, Len(s) - 1)) + DigitValue(s[Len(s)])
RECURSIVE Pow10(_)
Pow10(d) == IF d = 0 THEN 1 ELSE 10 * Pow10(d - 1)

\* float(s): surrounding whitespace and a leading "-" are accepted, then
\* digits with at most one "." and a digit on one side of it, or inf / nan.
\* The number is kept exactly, as n / 10^d.  (Exponents, "+" and "_" need
\* characters that do not occur in the model.)
ParseFloat(s) ==
    LET t == Strip(s)
        neg == t # <<>> /\ t[1] = "-"
        body == IF neg THEN Tail(t) ELSE t
        dots == {i \in 1..Len(body) : body[i] = "."}
        k == CHOOSE i \in dots : TRUE
        int_part == SubSeq(body, 1, k - 1)
        frac_part == SubSeq(body, k + 1, Len(body))
    IN IF body \in {<<"I", "N", "F">>, <<"I", "N", "F", "I", "N", "I", "T", "Y">>}
       THEN [kind |-> "inf", neg |-> neg, n |-> 0, d |-> 0]
       ELSE IF body = <<"N", "A", "N">>
       THEN [kind |-> "nan", neg |-> neg, n |-> 0, d |-> 0]
       ELSE IF dots = {} /\ body # <<>> /\ AllDigits(body)
       THEN [kind |-> "num", neg |-> neg, n |-> DecimalValue(body), d |-> 0]
       ELSE IF /\ Cardinality(dots) = 1
               /\ AllDigits(int_part) /\ AllDigits(frac_part)
               /\ int_part \o frac_part # <<>>
       THEN [kind |-> "num", neg |-> neg,
             n |-> DecimalValue(int_part \o frac_part), d |-> Len(frac_part)]
       ELSE [kind |-> "ValueError", neg |-> neg, n |-> 0, d |-> 0]

\* int(s): surrounding whitespace and a leading "-" are accepted, then digits
ParseInt(s) ==
    LET t == Strip(s)
        neg == t # <<>> /\ t[1] = "-"
        body == IF neg THEN Tail(t) ELSE t
    IN IF body # <<>> /\ AllDigits(body)
       THEN [kind |-> "num", value |-> IF neg THEN -DecimalValue(body) ELSE DecimalValue(body)]
       ELSE [kind |-> "ValueError", value |-> 0]

\* the multipliers dict, in its order
SizeSuffixes == <<"K", "M", "G">>
Multiplier(suffix) ==
    CASE suffix = "K" -> 1024 [] suffix = "M" -> 1024 * 1024
      [] suffix = "G" -> 1024 * 1024 * 1024

\* int(num * multiplier): truncation toward zero
IntOfProduct(num, multiplier) ==
    LET magnitude == (num.n * multiplier) \div Pow10(num.d)
    IN IF num.neg THEN -magnitude ELSE magnitude

\* _parse_size(size_str): the value returned, or the exception that leaves it
\* (int() of an infinite float raises OverflowError, which is not caught)
ParseSize(size_str) ==
    LET s == Strip(Upper(size_str))
        hit == {i \in 1..Len(SizeSuffixes) : EndsWith(s, SizeSuffixes[i])}
        suffix == SizeSuffixes[CHOOSE i \in hit : \A j \in hit : i <= j]
        num == ParseFloat(SubSeq(s, 1, Len(s) - 1))
    IN IF hit # {}
       THEN IF num.kind = "num"
            THEN [raised |-> "none", warned |-> FALSE,
                  value |-> IntOfProduct(num, Multiplier(suffix))]
            ELSE IF num.kind = "inf"
            THEN [raised |-> "OverflowError", warned |-> FALSE, value |-> 0]
            ELSE [raised |-> "none", warned |-> TRUE, value |-> 0]
       ELSE IF ParseInt(s).kind = "num"
            THEN [raised |-> "none", warned |-> FALSE, value |-> ParseInt(s).value]
            ELSE [raised |-> "none", warned |-> TRUE, value |-> 0]

\* "if request.rate_limit:" and the like
Truthy(str) == str # NoneVal /\ str # <<>>

\* opts["ratelimit"], opts["max_filesize"], opts["min_filesize"]
LimitOpts(limits) ==
    [key \in LimitKeys |->
        LET field == CHOOSE f \in LimitFields : OptionKey(f) = key
        IN IF Truthy(limits[field])
           THEN [set |-> TRUE, value |-> ParseSize(limits[field]).value]
           ELSE Absent]

\* the exception that leaves build_ydl_opts because of a size string
LimitsRaise(limits) ==
    IF \E f \in LimitFields : Truthy(limits[f]) /\ ParseSize(limits[f]).raised # "none"
    THEN "OverflowError" ELSE "none"

\* ------------------------------------------------------------------------
\* formats.get_quality_format and the format selection of build_ydl_opts
\* ------------------------------------------------------------------------
\* A format selector is the sequence of its "/"-separated alternatives; an
\* alternative names the streams it takes and the filters in its brackets
\* (height 0 and vcodec "" when there is none).
Alt(streams, height, vcodec) == [streams |-> streams, height |-> height, vcodec |-> vcodec]
\* "best" and "bestaudio", without filters
Best == Alt("best", 0, "")
BestAudio == Alt("bestaudio", 0, "")
\* "bestvideo[height<=H]+bestaudio/best[height<=H]/best"
Ladder(height) == <<Alt("bestvideo+bestaudio", height, ""), Alt("best", height, ""), Best>>
\* the selector of a request.format the client wrote itself ("raw")
RawFormat == <<Alt("137+140", 0, "")>>

\* one entry of opts["postprocessors"]
PP(key, preferredcodec, preferredquality) ==
    [key |-> key, preferredcodec |-> preferredcodec, preferredquality |-> preferredquality]

\* if x: for an Optional[str] or an Optional enum
Given(x) == x # Unset /\ x # ""

VideoQualities == {"1080p", "720p", "480p", "audio", "best"}

\* get_quality_format(quality): the keys it returns; a key it does not
\* return keeps the value opts had
GetQualityFormat(quality, ffmpeg) ==
    CASE quality = "1080p" ->
            [format |-> Ladder(1080), merge_output_format |-> "mp4", postprocessors |-> <<>>]
      [] quality = "720p" ->
            [format |-> Ladder(720), merge_output_format |-> "mp4", postprocessors |-> <<>>]
      [] quality = "480p" ->
            [format |-> Ladder(480), merge_output_format |-> "mp4", postprocessors |-> <<>>]
      [] quality = "audio" ->
            [format |-> <<BestAudio, Best>>, merge_output_format |-> "",
             postprocessors |-> IF ffmpeg THEN <<PP("FFmpegExtractAudio", "mp3", "192")>>
                                ELSE <<>>]
      [] OTHER ->
            [format |-> <<Best>>, merge_output_format |-> "mp4", postprocessors |-> <<>>]

\* build_ydl_opts, "Format selection": format, merge_output_format and the
\* postprocessors after the if / elif / else
FormatSelection(req) ==
    IF Given(req.format)
    THEN [format |-> RawFormat,
          merge_output_format |-> "", postprocessors |-> <<>>]
    ELSE IF req.extract_audio \/ req.quality = "audio"
    THEN [format |-> <<BestAudio, Best>>, merge_output_format |-> "",
          postprocessors |->
              IF Given(req.audio_format)
              THEN <<PP("FFmpegExtractAudio", req.audio_format,
                        IF Given(req.audio_quality) THEN req.audio_quality ELSE "192")>>
              ELSE <<>>]
    ELSE LET quality_opts ==
                 GetQualityFormat(IF req.quality # Unset THEN req.quality ELSE "720p",
                                  req.ffmpeg)
         IN IF Given(req.video_codec) /\ req.video_codec # "best"
            THEN [quality_opts EXCEPT
                      !.format = <<Alt("bestvideo+bestaudio", 0, req.video_codec), Best>>]
            ELSE quality_opts

\* the post-processors appended after the format selection
AppendedPostprocessors(req) ==
    (IF Given(req.audio_format) /\ ~req.extract_audio
     THEN <<PP("FFmpegAudioConvertor", req.audio_format, "")>> ELSE <<>>)
    \o (IF req.embed_thumbnail /\ req.ffmpeg
        THEN <<PP("FFmpegThumbnailsConvertor", "", ""), PP("EmbedThumbnail", "", "")>>
        ELSE <<>>)
    \o (IF req.add_metadata THEN <<PP("FFmpegMetadata", "", "")>> ELSE <<>>)

\* ------------------------------------------------------------------------
\* Filesystem
\* ------------------------------------------------------------------------
Parent(p) == IF p = <<>> THEN <<>> ELSE SubSeq(p, 1, Len(p) - 1)
Name(p) == p[Len(p)]
Prefixes(p) == {SubSeq(p, 1, n) : n \in 0..Len(p)}

\* Path.suffix: the name from its last dot on, unless that dot leads or ends it
DotPositions(name) == {i \in 1..Len(name) : name[i] = "."}
Suffix(name) ==
    IF DotPositions(name) = {} THEN <<>>
    ELSE LET i == CHOOSE k \in DotPositions(name) : \A m \in DotPositions(name) : m <= k
         IN IF i = 1 \/ i = Len(name) THEN <<>> ELSE SubSeq(name, i, Len(name))

\* the files below directory d, at any depth
FilesUnder(fs, d) == {f \in fs : IsInside(f, d) /\ f # d}
\* the files directly in directory d
FilesIn(fs, d) == {f \in fs : Parent(f) = d}
\* the directories of the tree rooted at d, d included
TreeDirs(ds, d) == {x \in ds : IsInside(x, d)}

\* Path.mkdir(parents=True, exist_ok=True); the OS resolves ".." on the way
Mkdir(ds, p) == ds \cup Prefixes(Resolve(p))

\* shutil.rmtree(d, ignore_errors=True)
RmtreeDirs(ds, d) == {x \in ds : ~IsInside(x, d)}
RmtreeFiles(fs, d) == {f \in fs : ~IsInside(f, d)}

\* ------------------------------------------------------------------------
\* File names and extension tables
\* ------------------------------------------------------------------------
a_mp4 == <<"a", ".", "m", "p", "4">>
b_mp4 == <<"b", ".", "m", "p", "4">>
a_vtt == <<"a", ".", "v", "t", "t">>
\* the partial file an interrupted download leaves behind
a_part == <<"a", ".", "m", "p", "4", ".", "p", "a", "r", "t">>
\* a container format the extension tables do not name
a_flv == <<"a", ".", "f", "l", "v">>
\* a name with glob metacharacters, as a title with brackets gives
q_mp4 == <<"[", "a", "]", ".", "m", "p", "4">>
etc == <<"e", "t", "c">>
passwd == <<"p", "a", "s", "s", "w", "d">>

\* downloader.py: the extensions download_youtube_video counts as media
DL_MEDIA_EXTS == {<<".", "m", "p", "4">>, <<".", "w", "e", "b", "m">>, <<".", "m", "k", "v">>, <<".", "m", "p", "3">>, <<".", "m", "4", "a">>, <<".", "o", "p", "u", "s">>}
\* endpoints.py: SKIP_EXTS
SKIP_EXTS == {<<".", "j", "s", "o", "n">>, <<".", "t", "x", "t">>, <<".", "d", "e", "s", "c", "r", "i", "p", "t", "i", "o", "n">>, <<".", "j", "p", "g">>, <<".", "j", "p", "e", "g">>, <<".", "p", "n", "g">>, <<".", "w", "e", "b", "p">>, <<".", "p", "a", "r", "t">>, <<".", "y", "t", "d", "l">>}
\* endpoints.py: SUBTITLE_EXTS
SUBTITLE_EXTS == {<<".", "v", "t", "t">>, <<".", "s", "r", "t">>, <<".", "a", "s", "s">>, <<".", "s", "s", "a">>}

\* sorted(files, key=lambda f: f.name): Python compares strings by code point
CodePoint(c) ==
    CASE c = "." -> 46 [] c = "4" -> 52 [] c = "[" -> 91 [] c = "]" -> 93
      [] c = "a" -> 97 [] c = "b" -> 98 [] c = "f" -> 102 [] c = "l" -> 108
      [] c = "m" -> 109 [] c = "p" -> 112 [] c = "r" -> 114 [] c = "t" -> 116
      [] c = "v" -> 118

RECURSIVE StrLeq(_, _)
\* s <= t for Python strings
StrLeq(s, t) ==
    IF s = <<>> THEN TRUE
    ELSE IF t = <<>> THEN FALSE
    ELSE IF s[1] = t[1] THEN StrLeq(Tail(s), Tail(t))
    ELSE CodePoint(s[1]) < CodePoint(t[1])

\* one entry of a manifest's file list: the name it shows (and puts in the
\* download_url), and the file the entry was made from
Entry(f) == [filename |-> Name(f), file |-> f]

RECURSIVE SortedByName(_)
\* the entries of the files F in ascending order of their names
SortedByName(F) ==
    IF F = {} THEN <<>>
    ELSE LET f == CHOOSE x \in F : \A y \in F : StrLeq(Name(x), Name(y))
         IN <<Entry(f)>> \o SortedByName(F \ {f})

\* ------------------------------------------------------------------------
\* The extraction engine (yt_dlp.YoutubeDL), an external collaborator
\* ------------------------------------------------------------------------
\* titles the probe may report for a playlist
PlaylistTitles == {<<"p">>, <<".", ".", "/", "j", "x">>}
\* the titles that name, from the job directory of id, the directory of
\* another download_id
CrossTitles(id) ==
    {<<".", ".", "/">> \o other : other \in (JobIds \cup {NeverMinted}) \ {id}}
\* playlist_title[:50]
TITLE_MAX == 50
Truncate(t) == SubSeq(t, 1, IF Len(t) < TITLE_MAX THEN Len(t) ELSE TITLE_MAX)

\* the sets of files a successful download may leave in the output directory
EngineOutputs ==
    {{}, {a_mp4}, {a_mp4, a_vtt}, {a_mp4, b_mp4}, {a_mp4, q_mp4, a_vtt}, {a_flv}}

\* what a failed download attempt may leave in the output directory
PartialOutputs == {{}, {a_part}}
\* a download that succeeds resumes from the partial files and renames them
Completed(fs, target) == {f \in fs : ~(Parent(f) = target /\ Name(f) \in UNION PartialOutputs)}

\* outcomes of one extract_info call, probe (download=False) or download
AttemptOutcomes == {"ok", "transient", "permanent", "other"}
\* one engine invocation as the log keeps it: the call, what it gave, and
\* the YoutubeDL object it was made on
Call(mode, outcome, ydl) == [mode |-> mode, outcome |-> outcome, ydl |-> ydl]
\* the exception the engine raises: yt-dlp reports recoverable network
\* failures and unsupported or denied sources alike as DownloadError
ExcType(outcome) ==
    IF outcome \in {"transient", "permanent"} THEN "DownloadError" ELSE "Exception"
\* texts the engine may put in the exception it raises
EngineTexts ==
    {"ERROR: [youtube] x: Video unavailable",
     "ERROR: unable to open for writing: /srv/app/downloads/j/x.part"}

\* ------------------------------------------------------------------------
\* Jobs
\* ------------------------------------------------------------------------
\* pc:     idle -> accepted -> probe -> download -> scan -> respond ->
\*         sending -> sent; failed while an exception of the downloader
\*         propagates; done once an error response has been raised
\* folder: the playlist folder (as written, unresolved), NoneVal otherwise
\* calls:  the engine invocations of the running downloader, with outcomes
\* ret:    the path download_youtube_video returned
\* exc:    the HTTPException status download_youtube_video raised
\* (folder, calls and ret are locals: they end with the function that owns them)
\* url:    request.url, as sent by the client
\* waits:  the seconds tenacity slept before each retry of the download
\* exc, detail: status_code and detail of the downloader's HTTPException
\* resp:   the response of unidl
\* message: the "message" of an error response, as the pieces it is
\*         formatted from
\* playlist, listed: the "playlist" flag and the "files" list of a manifest
\* client: whether the client was still connected when the response ended
\* bg:     the background task attached to the response
\* no request received yet
NoUrl == [scheme |-> "", netloc |-> <<>>]
NewJob ==
    [pc |-> "idle", url |-> NoUrl, folder |-> NoneVal, calls |-> <<>>, waits |-> <<>>,
     ret |-> NoneVal,
     exc |-> "none", detail |-> <<>>, resp |-> "none", message |-> <<>>, playlist |-> FALSE, listed |-> <<>>,
     client |-> "present", bg |-> "none"]

\* the empty dict
EmptyTable == [x \in {} |-> <<>>]


InitJobs ==
    /\ jobs = [id \in JobIds |-> NewJob]
    /\ active_downloads = EmptyTable
    /\ dirs = {<<>>, OUTPUT_DIR, <<etc>>}
    /\ files \in {{}, {<<etc, passwd>>}}
    /\ nextId = 1

\* an HTTPException leaves unidl
Fail(job, status) ==
    [job EXCEPT !.pc = "done", !.resp = status, !.folder = NoneVal, !.calls = <<>>, !.waits = <<>>,
                !.ret = NoneVal, !.exc = "none", !.detail = <<>>]

\* an exception leaves the executor thread (downloader.py 158-167 wrap it)
\* as HTTPException(400) for a DownloadError, HTTPException(500) otherwise
\* with the text of the exception, str(e), in the detail
Raise(job, exc, text) ==
    [job EXCEPT !.pc = "failed",
                !.exc = IF exc = "DownloadError" THEN "400" ELSE "500",
                !.detail = IF exc = "DownloadError"
                           THEN <<"YouTube download error: ", text>>
                           ELSE <<"Download failed: ", text>>]

\* the download attempts among the engine invocations
DownloadCalls(job) == SelectSeq(job.calls, LAMBDA c : c.mode = "download")
\* the outcomes of all engine invocations, in order
Outcomes(job) == [i \in 1..Len(job.calls) |-> job.calls[i].outcome]

\* ---- the request body: DownloadRequest.url (models.py 36, 90-96) --------
\* a URL as urlparse splits it
Netlocs == {<<>>, <<"h">>, <<"y", ".", "b">>}
Urls ==
    {[scheme |-> scheme, netloc |-> netloc] : scheme \in {"https", "ftp"}, netloc \in Netlocs}
        \cup {[scheme |-> "http", netloc |-> <<"h">>]}
\* pydantic's HttpUrl: scheme http or https, and a host
HttpUrl(url) == url.scheme \in {"http", "https"} /\ url.netloc # <<>>
\* utils.validate_download_url
ValidateDownloadUrl(url) ==
    /\ url.scheme # "" /\ url.scheme \in {"http", "https"}
    /\ url.netloc # <<>> /\ \E i \in 1..Len(url.netloc) : url.netloc[i] = "."
\* the body validates: the field type first, then the field validator
RequestValid(url) == HttpUrl(url) /\ ValidateDownloadUrl(url)

\* unidl minting the download_id before the connectivity check
MutUnidlMintsFirst(id) ==
    /\ nextId <= MaxJobs
    /\ id = DownloadId(nextId)
    /\ jobs[id].pc = "idle"
    /\ \E url \in Urls, internet \in BOOLEAN :
          IF ~RequestValid(url)
          THEN /\ jobs' = [jobs EXCEPT ![id] = [NewJob EXCEPT !.url = url, !.resp = "422"]]
               /\ nextId' = nextId
          ELSE /\ jobs' = [jobs EXCEPT ![id] =
                              IF internet
                              THEN [NewJob EXCEPT !.url = url, !.pc = "accepted"]
                              ELSE [NewJob EXCEPT !.url = url, !.resp = "503",
                                           !.message = <<"No internet connection available">>]]
               /\ nextId' = nextId + 1
    /\ UNCHANGED <<active_downloads, dirs, files, optVars>>

\* ---- unidl, up to the call of the downloader (endpoints.py 82-116) ------
\* FastAPI answers a body that does not validate with 422 before the
\* handler runs; the handler checks connectivity, then mints download_id
Unidl(id) ==
    /\ nextId <= MaxJobs
    /\ id = DownloadId(nextId)
    /\ jobs[id].pc = "idle"
    /\ \E url \in Urls, internet \in BOOLEAN :
          IF ~RequestValid(url)
          THEN /\ jobs' = [jobs EXCEPT ![id] = [NewJob EXCEPT !.url = url, !.resp = "422"]]
               /\ nextId' = nextId
          ELSE IF ~internet
          THEN /\ jobs' = [jobs EXCEPT ![id] = [NewJob EXCEPT !.url = url, !.resp = "503",
                                           !.message = <<"No internet connection available">>]]
               /\ nextId' = nextId
          ELSE /\ jobs' = [jobs EXCEPT ![id] = [NewJob EXCEPT !.url = url, !.pc = "accepted"]]
               /\ nextId' = nextId + 1
    /\ UNCHANGED <<active_downloads, dirs, files, optVars>>

\* download_youtube_video going to the download without the probe
MutDownloadStartNoProbe(id) ==
    /\ jobs[id].pc = "accepted"
    /\ \E internet \in BOOLEAN :
          IF internet
          THEN /\ dirs' = Mkdir(dirs, JobDir(id))
               /\ jobs' = [jobs EXCEPT ![id].pc = "download"]
          ELSE /\ jobs' = [jobs EXCEPT ![id] =
                              [@ EXCEPT !.pc = "failed", !.exc = "503",
                                        !.detail = <<"No internet connection">>]]
               /\ UNCHANGED dirs
    /\ UNCHANGED <<active_downloads, files, nextId, optVars>>

\* ---- download_youtube_video up to the executor (downloader.py 34-80) ----
\* its HTTPException(503) is caught by unidl's "except Exception" (500)
DownloadStart(id) ==
    /\ jobs[id].pc = "accepted"
    /\ \E internet \in BOOLEAN :
          IF internet
          THEN /\ dirs' = Mkdir(dirs, JobDir(id))
               /\ jobs' = [jobs EXCEPT ![id].pc = "probe"]
          ELSE /\ jobs' = [jobs EXCEPT ![id] =
                              [@ EXCEPT !.pc = "failed", !.exc = "503",
                                        !.detail = <<"No internet connection">>]]
               /\ UNCHANGED dirs
    /\ UNCHANGED <<active_downloads, files, nextId, optVars>>

\* ---- the probe, extract_info(url, download=False) (downloader.py 83-98) -
ProbeTitled(id, titles) ==
    /\ jobs[id].pc = "probe"
    /\ \/ /\ jobs' = [jobs EXCEPT ![id] = [@ EXCEPT !.pc = "download",
                                                   !.calls = <<Call("probe", "ok", "ydl")>>]]
          /\ UNCHANGED dirs
       \/ \E title \in titles :
             LET playlist_folder == JoinPath(JobDir(id), Truncate(title))
             IN /\ dirs' = Mkdir(dirs, playlist_folder)
                /\ jobs' = [jobs EXCEPT ![id] = [@ EXCEPT !.pc = "download",
                                                         !.calls = <<Call("probe", "ok", "ydl")>>,
                                                         !.folder = playlist_folder]]
       \/ \E outcome \in AttemptOutcomes \ {"ok"}, text \in EngineTexts :
             /\ jobs' = [jobs EXCEPT ![id] =
                           [Raise(@, ExcType(outcome), text)
                               EXCEPT !.calls = <<Call("probe", outcome, "ydl")>>]]
             /\ UNCHANGED dirs
    /\ UNCHANGED <<active_downloads, files, nextId, optVars>>

Probe(id) == ProbeTitled(id, PlaylistTitles)

\* ---- _download_with_retry (downloader.py 20-28, 100-106) ----------------
\* tenacity: retry_if_exception_type(DownloadError), stop_after_attempt
RetryAgain(exc, attempt_number) ==
    exc = "DownloadError" /\ attempt_number < RETRY_ATTEMPTS

\* wait_exponential(multiplier=1, min=2, max=10)
WAIT_MULTIPLIER == 1
WAIT_MIN == 2
WAIT_MAX == 10
EXP_BASE == 2
RECURSIVE Pow(_, _)
Pow(b, e) == IF e = 0 THEN 1 ELSE b * Pow(b, e - 1)
Max(a, b) == IF a >= b THEN a ELSE b
Min(a, b) == IF a <= b THEN a ELSE b
\* the seconds to sleep after attempt attempt_number has failed:
\* multiplier * exp_base ** (attempt_number - 1), clamped to [min, max]
WaitExponential(attempt_number) ==
    Max(Max(0, WAIT_MIN), Min(WAIT_MULTIPLIER * Pow(EXP_BASE, attempt_number - 1), WAIT_MAX))

\* the YoutubeDL object handed to _download_with_retry: the probe's own
\* for a single video, a second one made for a playlist
DownloadYdl(id) == IF jobs[id].folder # NoneVal THEN "ydl_playlist" ELSE "ydl"

\* the directory the engine writes into: that of ydl_opts["outtmpl"]
OutputFolder(id) ==
    IF jobs[id].folder # NoneVal THEN jobs[id].folder
    ELSE Parent(Outtmpl(NoneVal, JobDir(id)))

Attempt(id) ==
    /\ jobs[id].pc = "download"
    /\ \E outcome \in AttemptOutcomes, text \in EngineTexts :
          LET attempt_number == Len(DownloadCalls(jobs[id])) + 1
              logged == Append(jobs[id].calls, Call("download", outcome, DownloadYdl(id)))
          IN IF outcome = "ok"
             THEN \E written \in EngineOutputs :
                    LET target == Resolve(OutputFolder(id))
                    IN /\ dirs' = dirs \cup Prefixes(target)
                       /\ files' = Completed(files, target)
                                      \cup {Append(target, n) : n \in written}
                       /\ jobs' = [jobs EXCEPT ![id] = [@ EXCEPT !.pc = "scan",
                                                                !.calls = logged]]
             ELSE /\ jobs' = [jobs EXCEPT ![id] =
                                IF RetryAgain(ExcType(outcome), attempt_number)
                                THEN [@ EXCEPT !.calls = logged,
                                               !.waits = Append(@, WaitExponential(attempt_number))]
                                ELSE [Raise(@, ExcType(outcome), text)
                                         EXCEPT !.calls = logged]]
                  /\ \E partial \in PartialOutputs :
                        LET target == Resolve(OutputFolder(id))
                        IN /\ dirs' = dirs \cup Prefixes(target)
                           /\ files' = files \cup {Append(target, n) : n \in partial}
    /\ UNCHANGED <<active_downloads, nextId, optVars>>

\* ---- the scan of the result directory (downloader.py 103-156) -----------
ResultDir(id) == IF jobs[id].folder # NoneVal THEN jobs[id].folder ELSE JobDir(id)

Scan(id) ==
    /\ jobs[id].pc = "scan"
    /\ LET result_dir == ResultDir(id)
           media_files == {f \in FilesIn(files, Resolve(result_dir)) :
                              Suffix(Name(f)) \in DL_MEDIA_EXTS}
       IN jobs' = [jobs EXCEPT ![id] =
             IF media_files = {}
             THEN [Raise(@, "Exception", "No media files downloaded") EXCEPT !.calls = <<>>, !.waits = <<>>]
             ELSE IF Cardinality(media_files) = 1
                  THEN [@ EXCEPT !.pc = "respond", !.calls = <<>>, !.waits = <<>>,
                                 !.ret = Append(result_dir,
                                                Name(CHOOSE f \in media_files : TRUE))]
                  ELSE [@ EXCEPT !.pc = "respond", !.calls = <<>>, !.waits = <<>>, !.ret = result_dir]]
    /\ UNCHANGED <<active_downloads, dirs, files, nextId, optVars>>

\* ---- unidl: the downloader raised (endpoints.py 118-124) ----------------
\* UnidlExcept for a job that had been put in _active_downloads when minted
\* str(e) of an HTTPException: "<status_code>: <detail>"
StrOfHTTPException(status_code, detail) == <<status_code, ": ">> \o detail
\* the message unidl formats from the exception it caught
FailedMessage(job) == <<"Download failed: ">> \o StrOfHTTPException(job.exc, job.detail)

MutUnidlExceptRegistered(id) ==
    /\ jobs[id].pc = "failed"
    /\ jobs' = [jobs EXCEPT ![id] = [Fail(@, "500") EXCEPT !.message = FailedMessage(jobs[id])]]
    /\ active_downloads' = [x \in DOMAIN active_downloads \cup {id} |-> JobDir(id)]
    /\ UNCHANGED <<dirs, files, nextId, optVars>>

\* what arrives is the downloader's HTTPException, so "except Exception"
UnidlExcept(id) ==
    /\ jobs[id].pc = "failed"
    /\ jobs' = [jobs EXCEPT ![id] = [Fail(@, "500") EXCEPT !.message = FailedMessage(jobs[id])]]
    /\ UNCHANGED <<active_downloads, dirs, files, nextId, optVars>>

\* ---- unidl after the downloader returned (endpoints.py 126-248) ---------
\* Classify putting the single-file job in _active_downloads as well
MutClassifyRegister(id) ==
    LET path == Resolve(jobs[id].ret)
        download_dir == JobDir(id)
        listed == {f \in FilesUnder(files, path) : Suffix(Name(f)) \notin SKIP_EXTS}
        subtitle_files == {f \in FilesUnder(files, download_dir) :
                              Suffix(Name(f)) \in SUBTITLE_EXTS}
    IN IF path \in dirs
       THEN IF listed = {}
            THEN [resp |-> "500", register |-> FALSE, bg |-> "none",
                  playlist |-> FALSE, listed |-> <<>>]
            ELSE [resp |-> "manifest", register |-> TRUE, bg |-> "delayed",
                  playlist |-> TRUE, listed |-> SortedByName(listed)]
       ELSE IF subtitle_files # {}
            THEN [resp |-> "manifest", register |-> TRUE, bg |-> "delayed",
                  playlist |-> FALSE,
                  listed |-> <<Entry(path)>> \o SortedByName(subtitle_files)]
            ELSE [resp |-> "file", register |-> TRUE, bg |-> "cleanup",
                  playlist |-> FALSE, listed |-> <<>>]

\* Classify forgetting to schedule delayed_cleanup for a playlist manifest
MutClassifyNoTask(id) ==
    LET path == Resolve(jobs[id].ret)
        download_dir == JobDir(id)
        listed == {f \in FilesUnder(files, path) : Suffix(Name(f)) \notin SKIP_EXTS}
        subtitle_files == {f \in FilesUnder(files, download_dir) :
                              Suffix(Name(f)) \in SUBTITLE_EXTS}
    IN IF path \in dirs
       THEN IF listed = {}
            THEN [resp |-> "500", register |-> FALSE, bg |-> "none",
                  playlist |-> FALSE, listed |-> <<>>]
            ELSE [resp |-> "manifest", register |-> TRUE, bg |-> "none",
                  playlist |-> TRUE, listed |-> SortedByName(listed)]
       ELSE IF subtitle_files # {}
            THEN [resp |-> "manifest", register |-> TRUE, bg |-> "delayed",
                  playlist |-> FALSE,
                  listed |-> <<Entry(path)>> \o SortedByName(subtitle_files)]
            ELSE [resp |-> "file", register |-> FALSE, bg |-> "cleanup",
                  playlist |-> FALSE, listed |-> <<>>]

\* Classify streaming the media file although subtitle files were written
MutClassifyNoBundle(id) ==
    LET path == Resolve(jobs[id].ret)
        download_dir == JobDir(id)
        listed == {f \in FilesUnder(files, path) : Suffix(Name(f)) \notin SKIP_EXTS}
        subtitle_files == {f \in FilesUnder(files, download_dir) :
                              Suffix(Name(f)) \in SUBTITLE_EXTS}
    IN IF path \in dirs
       THEN IF listed = {}
            THEN [resp |-> "500", register |-> FALSE, bg |-> "none",
                  playlist |-> FALSE, listed |-> <<>>]
            ELSE [resp |-> "manifest", register |-> TRUE, bg |-> "delayed",
                  playlist |-> TRUE, listed |-> SortedByName(listed)]
       ELSE IF subtitle_files # {} /\ FALSE
            THEN [resp |-> "manifest", register |-> TRUE, bg |-> "delayed",
                  playlist |-> FALSE,
                  listed |-> <<Entry(path)>> \o SortedByName(subtitle_files)]
            ELSE [resp |-> "file", register |-> FALSE, bg |-> "cleanup",
                  playlist |-> FALSE, listed |-> <<>>]

\* what unidl answers for the path the downloader returned: the response,
\* whether the job is put in _active_downloads, and the background task
Classify(id) ==
    LET path == Resolve(jobs[id].ret)
        download_dir == JobDir(id)
        listed == {f \in FilesUnder(files, path) : Suffix(Name(f)) \notin SKIP_EXTS}
        subtitle_files == {f \in FilesUnder(files, download_dir) :
                              Suffix(Name(f)) \in SUBTITLE_EXTS}
    IN IF path \in dirs
       THEN IF listed = {}
            THEN [resp |-> "500", register |-> FALSE, bg |-> "none",
                  playlist |-> FALSE, listed |-> <<>>]
            ELSE [resp |-> "manifest", register |-> TRUE, bg |-> "delayed",
                  playlist |-> TRUE, listed |-> SortedByName(listed)]
       ELSE IF subtitle_files # {}
            THEN [resp |-> "manifest", register |-> TRUE, bg |-> "delayed",
                  playlist |-> FALSE,
                  listed |-> <<Entry(path)>> \o SortedByName(subtitle_files)]
            ELSE [resp |-> "file", register |-> FALSE, bg |-> "cleanup",
                  playlist |-> FALSE, listed |-> <<>>]

\* dict[key] = value
DictSet(table, key, value) ==
    [x \in DOMAIN table \cup {key} |-> IF x = key THEN value ELSE table[x]]

Respond(id) ==
    /\ jobs[id].pc = "respond"
    /\ LET c == Classify(id)
       IN /\ jobs' = [jobs EXCEPT ![id] =
                        IF c.resp = "500"
                        THEN [Fail(@, "500") EXCEPT !.message = <<"No files downloaded">>]
                        ELSE [@ EXCEPT !.pc = "sending", !.resp = c.resp, !.bg = c.bg,
                                       !.playlist = c.playlist, !.listed = c.listed,
                                       !.folder = NoneVal,
                                       !.ret = IF c.resp = "file" THEN @ ELSE NoneVal]]
          /\ active_downloads' =
                IF c.register THEN DictSet(active_downloads, id, JobDir(id))
                ELSE active_downloads
    /\ UNCHANGED <<dirs, files, nextId, optVars>>

\* ---- the response is sent; its background task runs once sending ended --
SendComplete(id) ==
    /\ jobs[id].pc = "sending"
    /\ jobs' = [jobs EXCEPT ![id] = [@ EXCEPT !.pc = "sent", !.ret = NoneVal]]
    /\ UNCHANGED <<active_downloads, dirs, files, nextId, optVars>>

ClientDisconnect(id) ==
    /\ jobs[id].pc = "sending"
    /\ jobs' = [jobs EXCEPT ![id] = [@ EXCEPT !.pc = "sent", !.ret = NoneVal, !.client = "gone"]]
    /\ UNCHANGED <<active_downloads, dirs, files, nextId, optVars>>

\* ---- _cleanup_download (endpoints.py 43-49) -----------------------------
\* dict.pop(key) without a default: KeyError on a missing key
MutDictPop(table, key) ==
    [raised |-> key \notin DOMAIN table,
     table |-> [x \in DOMAIN table \ {key} |-> table[x]]]

\* dict.pop(key, None)
DictPopDefault(table, key) ==
    [raised |-> FALSE, table |-> [x \in DOMAIN table \ {key} |-> table[x]]]

\* the state _cleanup_download(download_id) leaves, and whether it raised
CleanupOutcome(download_id, table, ds, fs) ==
    LET popped == DictPopDefault(table, download_id)
        download_dir == JobDir(download_id)
        exists == download_dir \in ds \/ download_dir \in fs
    IN IF popped.raised
       THEN [raised |-> TRUE, table |-> table, dirs |-> ds, files |-> fs]
       ELSE [raised |-> FALSE, table |-> popped.table,
             dirs |-> IF exists THEN RmtreeDirs(ds, download_dir) ELSE ds,
             files |-> IF exists THEN RmtreeFiles(fs, download_dir) ELSE fs]

CleanupDownload(download_id) ==
    LET out == CleanupOutcome(download_id, active_downloads, dirs, files)
    IN /\ active_downloads' = out.table
       /\ dirs' = out.dirs
       /\ files' = out.files

\* the cleanup run only for a client that is still connected
MutRunCleanup(id) ==
    /\ jobs[id].pc = "sent"
    /\ jobs[id].bg = "cleanup"
    /\ jobs[id].client = "present"
    /\ CleanupDownload(id)
    /\ jobs' = [jobs EXCEPT ![id].bg = "done"]
    /\ UNCHANGED <<nextId, optVars>>

\* background_tasks.add_task(_cleanup_download, download_id) (endpoints.py 240)
RunCleanup(id) ==
    /\ jobs[id].pc = "sent"
    /\ jobs[id].bg = "cleanup"
    /\ CleanupDownload(id)
    /\ jobs' = [jobs EXCEPT ![id].bg = "done"]
    /\ UNCHANGED <<nextId, optVars>>

\* delayed_cleanup: await asyncio.sleep(600) (endpoints.py 161-162, 222-223)
SleepElapses(id) ==
    /\ jobs[id].pc = "sent"
    /\ jobs[id].bg = "delayed"
    /\ jobs' = [jobs EXCEPT ![id].bg = "due"]
    /\ UNCHANGED <<active_downloads, dirs, files, nextId, optVars>>

\* delayed_cleanup: _cleanup_download(download_id) (endpoints.py 163, 224)
DelayedCleanup(id) ==
    /\ jobs[id].bg = "due"
    /\ CleanupDownload(id)
    /\ jobs' = [jobs EXCEPT ![id].bg = "done"]
    /\ UNCHANGED <<nextId, optVars>>

\* ---- download_file (endpoints.py 52-79) ---------------------------------
\* the characters that make pathlib treat a pattern component as a wildcard
GLOB_MAGIC == {"*", "?", "["}
IsWildcard(c) == \E i \in 1..Len(c) : c[i] \in GLOB_MAGIC

\* position of the "]" that closes a character class opened at pat[1], 0 if
\* there is none (a "]" right after the "[" belongs to the class)
ClassEnd(pat) ==
    LET from == IF Len(pat) > 1 /\ pat[2] = "!" THEN 4 ELSE 3
        ends == {k \in from..Len(pat) : pat[k] = "]"}
    IN IF ends = {} THEN 0 ELSE CHOOSE k \in ends : \A m \in ends : k <= m

RECURSIVE GlobMatch(_, _)
\* fnmatch: "*" any run, "?" one character, "[...]" one of a class
\* ("[!...]" none of it); ranges do not occur in the model
GlobMatch(pat, name) ==
    IF pat = <<>> THEN name = <<>>
    ELSE IF pat[1] = "*"
         THEN GlobMatch(Tail(pat), name) \/ (name # <<>> /\ GlobMatch(pat, Tail(name)))
    ELSE IF name = <<>> THEN FALSE
    ELSE IF pat[1] = "?" THEN GlobMatch(Tail(pat), Tail(name))
    ELSE IF pat[1] = "[" /\ ClassEnd(pat) # 0
         THEN LET k == ClassEnd(pat)
                  negated == pat[2] = "!"
                  members == {pat[i] : i \in (IF negated THEN 3 ELSE 2)..(k - 1)}
              IN /\ (name[1] \in members) # negated
                 /\ GlobMatch(SubSeq(pat, k + 1, Len(pat)), Tail(name))
    ELSE pat[1] = name[1] /\ GlobMatch(Tail(pat), Tail(name))

\* one pattern component applied to a set of candidate directories: ".." and
\* a plain name as the OS decides existence, a wildcard against the entries
WalkStep(S, c) ==
    IF c = DOTDOT THEN {Parent(p) : p \in S \cap dirs}
    ELSE IF IsWildcard(c)
         THEN {p \in dirs \cup files : p # <<>> /\ Parent(p) \in S \cap dirs
                                          /\ GlobMatch(c, Name(p))}
    ELSE {Append(p, c) : p \in S \cap dirs} \cap (dirs \cup files)

RECURSIVE Walk(_, _)
Walk(S, parts) == IF parts = <<>> THEN S ELSE Walk(WalkStep(S, parts[1]), Tail(parts))

\* the files base_dir.rglob(filename) yields starting from directory d
Hits(d, parts) == Walk({d}, parts) \cap files

\* the responses download_file can give for a job in _active_downloads
\* (rglob lists a directory before its subdirectories, sibling directories
\* and the entries of one directory in no fixed order)
ServeRegistered(download_id, filename) ==
    LET base_dir == Resolve(active_downloads[download_id])
        pattern == ParsePath(filename)
        tree == TreeDirs(dirs, base_dir)
        first == {d \in tree :
                    /\ Hits(d, pattern.parts) # {}
                    /\ \A a \in tree : (IsInside(d, a) /\ a # d)
                                          => Hits(a, pattern.parts) = {}}
        matches0 == UNION {Hits(d, pattern.parts) : d \in first}
    IN IF pattern.abs
       THEN {[status |-> 500, detail |-> "NotImplementedError", path |-> NoneVal]}
       ELSE IF matches0 = {}
       THEN {[status |-> 404, detail |-> "File not found", path |-> NoneVal]}
       ELSE {IF ~StartsWith(Str(file_path), Str(base_dir))
             THEN [status |-> 403, detail |-> "Access denied", path |-> NoneVal]
             ELSE [status |-> 200, detail |-> "", path |-> file_path]
             : file_path \in matches0}

\* ServeOutcomes telling an expired job from an unknown one
MutServeOutcomesExpired(download_id, filename) ==
    IF download_id \notin DOMAIN active_downloads
    THEN {[status |-> 404, path |-> NoneVal,
           detail |-> IF download_id \in JobIds /\ jobs[download_id].pc # "idle"
                      THEN "Download expired" ELSE "Download not found"]}
    ELSE ServeRegistered(download_id, filename)

\* the responses download_file can give
ServeOutcomes(download_id, filename) ==
    IF download_id \notin DOMAIN active_downloads
    THEN {[status |-> 404, detail |-> "Download expired or not found", path |-> NoneVal]}
    ELSE ServeRegistered(download_id, filename)

\* the filename strings requested in the model
ServeFilenames == {a_mp4, q_mp4, a_vtt, <<".", ".", "/", ".", ".", "/", "e", "t", "c", "/", "p", "a", "s", "s", "w", "d">>, <<".", ".", "/", "j", "x", "/", "a", ".", "m", "p", "4">>}

\* the handler answers and leaves the state of the server as it is
DownloadFile(download_id, filename) ==
    /\ ServeOutcomes(download_id, filename) # {}
    /\ UNCHANGED <<jobs, active_downloads, dirs, files, nextId, optVars>>

\* ------------------------------------------------------------------------
\* Specification of the service
\* ------------------------------------------------------------------------
OptsIdle ==
    /\ reqTemplate = NoneVal /\ optsJob = DownloadId(1) /\ opts = NoOpts
    /\ reqLimits = NoLimits /\ sizeStr = NoneVal /\ sizeOut = NoSize
    /\ reqFormat = DefaultFormat

Init == InitJobs /\ OptsIdle

\* the steps of an accepted request that the event loop, the thread pool
\* and the engine's socket timeout carry forward
JobStep(id) ==
    \/ DownloadStart(id)
    \/ Probe(id)
    \/ Attempt(id)
    \/ Scan(id)
    \/ UnidlExcept(id)
    \/ Respond(id)
    \/ SendComplete(id)
    \/ ClientDisconnect(id)
    \/ RunCleanup(id)
    \/ SleepElapses(id)
    \/ DelayedCleanup(id)

Next ==
    \/ \E id \in JobIds : Unidl(id) \/ JobStep(id)
    \/ \E id \in JobIds, filename \in ServeFilenames : DownloadFile(id, filename)

\* ------------------------------------------------------------------------
\* Specification of build_ydl_opts over all short output templates
\* ------------------------------------------------------------------------
TemplateChars == {"\\", "/", ".", "r", "j", "x"}
Templates == UNION {[1..n -> TemplateChars] : n \in 0..MaxTemplateLen}

\* the arguments of one call, in a process that has served no request yet
InitOpts ==
    /\ reqTemplate \in Templates \cup {NoneVal}
    /\ optsJob \in JobIds
    /\ opts = NoOpts
    /\ reqLimits = NoLimits /\ sizeStr = NoneVal /\ sizeOut = NoSize
    /\ reqFormat = DefaultFormat
    /\ jobs = [id \in JobIds |-> NewJob]
    /\ active_downloads = EmptyTable
    /\ dirs = {<<>>, OUTPUT_DIR, <<etc>>}
    /\ files = {}
    /\ nextId = 1

BuildYdlOpts ==
    /\ opts = NoOpts
    /\ opts' = IF LimitsRaise(reqLimits) # "none"
               THEN [NoOpts EXCEPT !.raised = LimitsRaise(reqLimits)]
               ELSE [built |-> TRUE, raised |-> "none",
                     outtmpl |-> Outtmpl(reqTemplate, JobDir(optsJob)),
                     limits |-> LimitOpts(reqLimits),
                     format |-> FormatSelection(reqFormat).format,
                     merge_output_format |-> FormatSelection(reqFormat).merge_output_format,
                     postprocessors |-> FormatSelection(reqFormat).postprocessors
                                           \o AppendedPostprocessors(reqFormat)]
    /\ UNCHANGED <<reqTemplate, optsJob, reqLimits, sizeStr, sizeOut, reqFormat, jobVars>>

vars == <<optVars, jobVars>>

NextOpts == BuildYdlOpts

SpecOpts == InitOpts /\ [][NextOpts]_vars

\* ------------------------------------------------------------------------
\* Specification of _parse_size and the download limits over short strings
\* ------------------------------------------------------------------------
SizeChars == {"0", "1", "5", ".", "K", "-", " "}
\* strings with the other suffixes, in both cases, and the float words
SizeExtras == {<<"1", "M">>, <<"1", "m">>, <<"1", ".", "5", "M">>, <<"1", "G">>, <<"1", "g">>, <<"i", "n", "f", "K">>, <<"n", "a", "n", "K">>, <<"1", "k">>}
SizeStrings == UNION {[1..n -> SizeChars] : n \in 0..MaxSizeLen} \cup SizeExtras
\* the other two limits of the request
OtherLimits == {NoneVal, <<"1", "M">>}

InitSize ==
    /\ sizeStr \in SizeStrings
    /\ sizeOut = NoSize
    /\ reqLimits \in {[rate_limit |-> a, max_filesize |-> b, min_filesize |-> c] :
                         a \in {NoneVal, sizeStr}, b \in OtherLimits, c \in OtherLimits}
    /\ reqTemplate = NoneVal /\ optsJob = DownloadId(1) /\ opts = NoOpts
    /\ reqFormat = DefaultFormat
    /\ jobs = [id \in JobIds |-> NewJob]
    /\ active_downloads = EmptyTable
    /\ dirs = {<<>>, OUTPUT_DIR, <<etc>>}
    /\ files = {}
    /\ nextId = 1

\* a direct call of _parse_size(sizeStr)
ParseSizeCall ==
    /\ ~sizeOut.done
    /\ sizeOut' = [done |-> TRUE, raised |-> ParseSize(sizeStr).raised,
                   warned |-> ParseSize(sizeStr).warned, value |-> ParseSize(sizeStr).value]
    /\ UNCHANGED <<reqTemplate, optsJob, opts, reqLimits, sizeStr, reqFormat, jobVars>>

NextSize == ParseSizeCall \/ BuildYdlOpts

SpecSize == InitSize /\ [][NextSize]_vars

\* ------------------------------------------------------------------------
\* Specification of build_ydl_opts over the format fields of the request
\* ------------------------------------------------------------------------
FormatRequests ==
    [format : {Unset, "", "raw"}, extract_audio : BOOLEAN,
     quality : VideoQualities \cup {Unset},
     audio_format : {Unset, "mp3", "wav"}, audio_quality : {Unset, "320"},
     video_codec : {Unset, "h264", "best"},
     embed_thumbnail : BOOLEAN, add_metadata : BOOLEAN, ffmpeg : BOOLEAN]

InitFormat ==
    /\ reqFormat \in FormatRequests
    /\ reqTemplate = NoneVal /\ optsJob = DownloadId(1) /\ opts = NoOpts
    /\ reqLimits = NoLimits /\ sizeStr = NoneVal /\ sizeOut = NoSize
    /\ jobs = [id \in JobIds |-> NewJob]
    /\ active_downloads = EmptyTable
    /\ dirs = {<<>>, OUTPUT_DIR, <<etc>>}
    /\ files = {}
    /\ nextId = 1

NextFormat == BuildYdlOpts

SpecFormat == InitFormat /\ [][NextFormat]_vars

Spec == Init /\ [][Next]_vars

\* ------------------------------------------------------------------------
\* Specification of the service when the probe may also report a playlist
\* title that names another download_id
\* ------------------------------------------------------------------------
ProbeCross(id) == ProbeTitled(id, PlaylistTitles \cup CrossTitles(id))

NextCross == Next \/ \E id \in JobIds : ProbeCross(id)

SpecCross == Init /\ [][NextCross]_vars

\* every accepted request is carried forward; new requests and file
\* requests arrive as the clients please
FairSpec == Spec /\ \A id \in JobIds : WF_vars(JobStep(id))

\* ------------------------------------------------------------------------
\* Properties
\* ------------------------------------------------------------------------

\* C1: the output template build_ydl_opts returns names the job directory
\* or a descendant of it, never a path outside it (such as a sibling
\* directory whose name starts with the job directory's name).
C1_OuttmplInsideJobDir ==
    opts.built => IsInside(Resolve(opts.outtmpl), JobDir(optsJob))

\* C2: download_file returns file content only for a file whose resolved
\* path is the registered job directory or a descendant of it; a path that
\* only shares a string prefix with the job directory is refused.
C2_ServedInsideJobDir ==
    \A id \in DOMAIN active_downloads : \A filename \in ServeFilenames :
        \A out \in ServeOutcomes(id, filename) :
            out.status = 200 => IsInside(out.path, Resolve(active_downloads[id]))

TraversalName == <<".", ".", "/", ".", ".", "/", "e", "t", "c", "/", "p", "a", "s", "s", "w", "d">>

\* C3: for any registered job, serving "../../etc/passwd" returns 403,
\* whether or not a file exists at that relative location.
C3_TraversalForbidden ==
    \A id \in DOMAIN active_downloads :
        \A out \in ServeOutcomes(id, TraversalName) : out.status = 403

AllTransient(dl, n) == \A i \in 1..n : dl[i] = "transient"

\* C4: counting the engine invocations of one download: an engine that has
\* failed transiently N times in a row with N < RETRY_ATTEMPTS is invoked
\* again (the executor has not given up), there are never more than
\* RETRY_ATTEMPTS invocations, and RETRY_ATTEMPTS transient failures in a
\* row surface the DownloadError (the downloader's HTTP 400).
C4_RetryCount ==
    \A id \in JobIds :
        LET out == Outcomes(jobs[id])
            n == Len(out)
        IN /\ n <= RETRY_ATTEMPTS
           /\ (n > 0 /\ AllTransient(out, n)) =>
                 IF n < RETRY_ATTEMPTS THEN jobs[id].pc = "download"
                 ELSE jobs[id].pc = "failed" /\ jobs[id].exc = "400"

\* C5: after a download attempt failed with a permanent failure, no further
\* download attempt is made.
C5_PermanentNotRetried ==
    \A id \in JobIds :
        LET dl == DownloadCalls(jobs[id])
        IN \A i \in 1..(Len(dl) - 1) : dl[i].outcome # "permanent"

\* C6: a job answered with the single file is never in the job table, its
\* directory and the file exist while the response is being sent, the
\* eviction has not started before the response ended, and once the
\* eviction has run the job directory does not exist.
C6_SingleStreamThenEvict ==
    \A id \in JobIds :
        jobs[id].resp = "file" =>
            /\ id \notin DOMAIN active_downloads
            /\ jobs[id].pc = "sending" =>
                  /\ jobs[id].bg = "cleanup"
                  /\ JobDir(id) \in dirs
                  /\ Resolve(jobs[id].ret) \in files
            /\ jobs[id].bg = "done" => jobs[id].pc = "sent" /\ JobDir(id) \notin dirs

C6_Witness ==
    \E id \in JobIds :
        jobs[id].resp = "file" /\ jobs[id].bg = "done" /\ JobDir(id) \notin dirs

NotFoundResponse ==
    [status |-> 404, detail |-> "Download expired or not found", path |-> NoneVal]

\* C7: once _cleanup_download(id) has run, download_file answers 404 for
\* that id and another _cleanup_download(id) raises nothing and leaves the
\* job table and the filesystem as they are, as for an id never minted.
C7_EvictIdempotent ==
    \A id \in JobIds :
        (jobs[id].bg = "done" \/ jobs[id].pc = "idle") =>
            /\ \A filename \in ServeFilenames :
                  ServeOutcomes(id, filename) = {NotFoundResponse}
            /\ CleanupOutcome(id, active_downloads, dirs, files) =
                  [raised |-> FALSE, table |-> active_downloads,
                   dirs |-> dirs, files |-> files]

C7_Witness ==
    \E id \in JobIds : jobs[id].resp = "manifest" /\ jobs[id].bg = "done"

C8_Pending ==
    \A id \in JobIds :
        /\ id \in DOMAIN active_downloads =>
              jobs[id].resp = "manifest" /\ jobs[id].bg \in {"delayed", "due"}
        /\ (jobs[id].resp = "manifest" /\ jobs[id].bg = "delayed") =>
              id \in DOMAIN active_downloads /\ JobDir(id) \in dirs

\* C8: every job in the job table has its deferred eviction pending from
\* registration on, stays in the table with its directory until the delay
\* has elapsed, and once the delay has elapsed is eventually evicted.
C8_DeferredEviction ==
    /\ []C8_Pending
    /\ \A id \in JobIds :
          (jobs[id].bg = "due") ~>
              (id \notin DOMAIN active_downloads /\ JobDir(id) \notin dirs)

C8_Witness ==
    \E id \in JobIds : jobs[id].bg = "due" /\ id \in DOMAIN active_downloads

\* C9: once a request has ended and nothing is scheduled for it any more,
\* the job directory it created is deleted, whichever path it took.
C9_DirDeleted ==
    \A id \in JobIds :
        (jobs[id].pc = "done" \/ jobs[id].bg = "done") => JobDir(id) \notin dirs

\* C10: when the client disconnects while the file or the manifest is
\* being sent, the job directory is eventually deleted all the same.
C10_EvictAfterDisconnect ==
    \A id \in JobIds : (jobs[id].client = "gone") ~> (JobDir(id) \notin dirs)

C10_Witness ==
    \E id \in JobIds :
        jobs[id].client = "gone" /\ jobs[id].resp = "file" /\ JobDir(id) \notin dirs

\* the job has not come back from a successful download and classification
C11_NotSucceeded(id) ==
    jobs[id].pc \in {"idle", "accepted", "probe", "download", "scan", "failed", "respond", "done"}

\* the path the downloader returned is a file, or a directory that holds a
\* file the manifest lists
C11_FoundFile(id) ==
    LET path == Resolve(jobs[id].ret)
    IN IF path \in dirs
       THEN \E f \in FilesUnder(files, path) : Suffix(Name(f)) \notin SKIP_EXTS
       ELSE path \in files

\* C11: a job is in the job table only after its download succeeded and the
\* classification found at least one file: it is put there only by the step
\* that answers with a manifest, and a job that has not got that far or
\* whose probe, download or classification failed is not in the table.
C11_RegisteredOnlyAfterSuccess ==
    /\ [](\A id \in JobIds :
            /\ C11_NotSucceeded(id) => id \notin DOMAIN active_downloads
            /\ id \in DOMAIN active_downloads => jobs[id].resp = "manifest")
    /\ [][\A id \in JobIds :
            (id \notin DOMAIN active_downloads /\ id \in DOMAIN active_downloads') =>
                /\ jobs[id].pc = "respond"
                /\ jobs'[id].resp = "manifest"
                /\ C11_FoundFile(id)]_vars

C11_Witness ==
    \E id \in JobIds :
        /\ id \in DOMAIN active_downloads
        /\ jobs[id].pc = "sending"
        /\ jobs[id].resp = "manifest"

\* C12: while a job is in the job table, a serve request with the filename
\* of any entry of its manifest whose file lies in the registered job
\* directory returns exactly that entry's file (status 200), never 404 and
\* never another file.
C12_ListedFileServed ==
    \A id \in DOMAIN active_downloads :
        \A i \in 1..Len(jobs[id].listed) :
            LET entry == jobs[id].listed[i]
            IN IsInside(entry.file, Resolve(active_downloads[id])) =>
                  ServeOutcomes(id, entry.filename) =
                      {[status |-> 200, detail |-> "", path |-> entry.file]}

\* a download_id the server never minted
\* C13: for every filename, a serve request for a job that was registered
\* and then evicted gets the same response (status and message) as one for
\* a download_id that was never minted.
C13_EvictedLikeUnknown ==
    \A id \in JobIds :
        (jobs[id].resp = "manifest" /\ jobs[id].bg = "done") =>
            \A filename \in ServeFilenames :
                ServeOutcomes(id, filename) = ServeOutcomes(NeverMinted, filename)

C13_Witness ==
    \E id \in JobIds :
        /\ jobs[id].resp = "manifest"
        /\ jobs[id].bg = "done"
        /\ id \notin DOMAIN active_downloads
        /\ JobDir(id) \notin dirs

\* the media files and the subtitle files of a job that is not a playlist
C14_Media(id) == {f \in FilesIn(files, JobDir(id)) : Suffix(Name(f)) \in DL_MEDIA_EXTS}
C14_Subtitles(id) == {f \in FilesUnder(files, JobDir(id)) : Suffix(Name(f)) \in SUBTITLE_EXTS}

\* C14: when the job is not a playlist and its directory holds exactly one
\* media file and at least one subtitle file, unidl answers with a manifest
\* that is not a playlist, lists exactly the media file and every subtitle
\* file (two entries for one .mp4 and one .vtt), and registers the job.
C14_BundleWithSubtitles ==
    [][\A id \in JobIds :
          (/\ jobs[id].pc = "respond" /\ jobs'[id].pc # "respond"
           /\ jobs[id].folder = NoneVal
           /\ Cardinality(C14_Media(id)) = 1
           /\ C14_Subtitles(id) # {}) =>
              LET listed == jobs'[id].listed
              IN /\ jobs'[id].resp = "manifest"
                 /\ ~jobs'[id].playlist
                 /\ {listed[i].file : i \in 1..Len(listed)} =
                        C14_Media(id) \cup C14_Subtitles(id)
                 /\ Len(listed) = Cardinality(C14_Media(id) \cup C14_Subtitles(id))
                 /\ id \in DOMAIN active_downloads']_vars

C14_Witness ==
    \E id \in JobIds :
        /\ jobs[id].pc = "sending"
        /\ jobs[id].resp = "manifest" /\ ~jobs[id].playlist
        /\ jobs[id].listed = <<Entry(Append(JobDir(id), a_mp4)), Entry(Append(JobDir(id), a_vtt))>>
        /\ id \in DOMAIN active_downloads

\* the media files in the playlist folder of a job the probe found a playlist for
C15_Media(id) ==
    {f \in FilesIn(files, Resolve(jobs[id].folder)) : Suffix(Name(f)) \in DL_MEDIA_EXTS}

\* C15: when the probe reported a playlist and the playlist folder holds
\* k >= 2 media files, unidl answers with a playlist manifest of exactly k
\* entries, in ascending order of their filenames.
C15_PlaylistManifest ==
    [][\A id \in JobIds :
          (/\ jobs[id].pc = "respond" /\ jobs'[id].pc # "respond"
           /\ jobs[id].folder # NoneVal
           /\ Cardinality(C15_Media(id)) >= 2) =>
              LET listed == jobs'[id].listed
              IN /\ jobs'[id].resp = "manifest"
                 /\ jobs'[id].playlist
                 /\ Len(listed) = Cardinality(C15_Media(id))
                 /\ \A i \in 1..(Len(listed) - 1) :
                        StrLeq(listed[i].filename, listed[i + 1].filename)]_vars

\* C16: unidl reports a playlist only for a job whose probe detected a
\* playlist and whose manifest has at least two entries; a job that is not
\* a playlist is not reported as one, however many media files it wrote.
C16_PlaylistOnlyIfProbed ==
    [][\A id \in JobIds :
          (jobs[id].pc = "respond" /\ jobs'[id].playlist) =>
              /\ jobs[id].folder # NoneVal
              /\ Len(jobs'[id].listed) >= 2]_vars

\* the strings of ^\d+(\.\d+)?[KMG]?$, case-insensitively, split into the
\* number and the suffix letter
C17_HasSuffix(s) == s # <<>> /\ UpperChar(s[Len(s)]) \in {"K", "M", "G"}
C17_Number(s) == IF C17_HasSuffix(s) THEN SubSeq(s, 1, Len(s) - 1) ELSE s
C17_Dots(s) == {i \in 1..Len(C17_Number(s)) : C17_Number(s)[i] = "."}
C17_Whole(s) ==
    IF C17_Dots(s) = {} THEN C17_Number(s)
    ELSE SubSeq(C17_Number(s), 1, (CHOOSE i \in C17_Dots(s) : TRUE) - 1)
C17_Fraction(s) ==
    IF C17_Dots(s) = {} THEN <<>>
    ELSE SubSeq(C17_Number(s), (CHOOSE i \in C17_Dots(s) : TRUE) + 1, Len(C17_Number(s)))
C17_Matches(s) ==
    /\ s # NoneVal
    /\ Cardinality(C17_Dots(s)) <= 1
    /\ C17_Whole(s) # <<>> /\ AllDigits(C17_Whole(s))
    /\ AllDigits(C17_Fraction(s))
    /\ C17_Dots(s) # {} => C17_Fraction(s) # <<>>
\* the number times the multiplier of the suffix, truncated
C17_Expected(s) ==
    LET mult == IF C17_HasSuffix(s) THEN Multiplier(UpperChar(s[Len(s)])) ELSE 1
    IN (DecimalValue(C17_Whole(s) \o C17_Fraction(s)) * mult)
           \div Pow10(Len(C17_Fraction(s)))

\* C17: for every string matching ^\d+(\.\d+)?[KMG]?$ case-insensitively,
\* _parse_size returns the number times the suffix multiplier truncated to
\* an integer ("1M" 1048576, "1.5" 1), without raising.
C17_ParseSizeExpected ==
    (sizeOut.done /\ C17_Matches(sizeStr)) =>
        /\ sizeOut.raised = "none"
        /\ sizeOut.value = C17_Expected(sizeStr)

\* C18: build_ydl_opts never fails because of a rate_limit, max_filesize or
\* min_filesize string; a string that parses gives a non-negative option
\* value, and a string that does not parse leaves the option key absent.
C18_LimitsParsedOrDropped ==
    opts # NoOpts =>
        /\ opts.raised = "none"
        /\ \A field \in LimitFields :
               Truthy(reqLimits[field]) =>
                   LET option == opts.limits[OptionKey(field)]
                   IN IF ParseSize(reqLimits[field]).warned
                      THEN ~option.set
                      ELSE option.set /\ option.value >= 0

\* C19: a request rejected before acquisition starts has no side effects:
\* a URL whose scheme is not http/https or whose host is missing is answered
\* with 422, a failed connectivity check with 503, and in both cases no
\* download_id is minted, no directory is created, the engine is not
\* invoked and the job table is unchanged.
C19_RejectedNoSideEffects ==
    [][\A id \in JobIds :
          (jobs[id].pc = "idle" /\ jobs'[id] # jobs[id]) =>
              LET job == jobs'[id]
              IN /\ (job.url.scheme \notin {"http", "https"} \/ job.url.netloc = <<>>)
                        => job.resp = "422"
                 /\ job.resp \in {"422", "503"} \/ job.pc = "accepted"
                 /\ job.resp \in {"422", "503"} =>
                        /\ job.pc = "idle" /\ job.calls = <<>>
                        /\ nextId' = nextId
                        /\ dirs' = dirs /\ files' = files
                        /\ active_downloads' = active_downloads]_vars
C19_Witness ==
    \E id \in JobIds :
        /\ jobs[id].pc = "idle" /\ jobs[id].resp = "422"
        /\ jobs[id].url.scheme = "ftp"
        /\ nextId = 1 /\ JobDir(id) \notin dirs /\ active_downloads = EmptyTable

\* C20: the message of the error response for a failed acquisition does
\* not depend on the text of the engine's error: no piece of it is a text
\* the engine raised.
C20_MessageWithoutEngineText ==
    \A id \in JobIds :
        jobs[id].pc = "done" =>
            \A i \in 1..Len(jobs[id].message) : jobs[id].message[i] \notin EngineTexts

\* C22: a transient failure of any engine network operation of a job, the
\* probe included, is retried: a job whose operation failed transiently has
\* failed only when that operation was attempted RETRY_ATTEMPTS times.
C22_TransientRetriedUntilExhausted ==
    \A id \in JobIds :
        LET calls == jobs[id].calls
            n == Len(calls)
        IN (jobs[id].pc = "failed" /\ n > 0 /\ calls[n].outcome = "transient") =>
               Cardinality({i \in 1..n : calls[i].mode = calls[n].mode}) = RETRY_ATTEMPTS

\* C23: each download attempt of a job runs on a fresh engine object: the
\* YoutubeDL object of a download attempt was used by no earlier engine
\* invocation of the job, probe or download.
C23_FreshEnginePerAttempt ==
    \A id \in JobIds :
        LET calls == jobs[id].calls
        IN \A j \in 1..Len(calls) :
               calls[j].mode = "download" =>
                   \A i \in 1..(j - 1) : calls[i].ydl # calls[j].ydl

\* C24: at the start of every retry attempt of a job, the directory the
\* job downloads into holds no partial file left by an earlier failed
\* attempt.
C24_PartialsRemovedBeforeRetry ==
    \A id \in JobIds :
        (jobs[id].pc = "download" /\ DownloadCalls(jobs[id]) # <<>>) =>
            \A f \in FilesIn(files, Resolve(OutputFolder(id))) :
                Name(f) \notin UNION PartialOutputs

\* C25: the delay between consecutive download attempts doubles with each
\* attempt until it reaches the cap: the delay before attempt k+2 is twice
\* the delay before attempt k+1 whenever the doubled value does not exceed
\* WAIT_MAX, and no delay exceeds WAIT_MAX.
C25_BackoffDoubles ==
    \A id \in JobIds :
        LET waits == jobs[id].waits
        IN /\ \A k \in 1..Len(waits) : waits[k] <= WAIT_MAX
           /\ \A k \in 1..(Len(waits) - 1) :
                  2 * waits[k] <= WAIT_MAX => waits[k + 1] = 2 * waits[k]

\* C26: for every playlist title the probe can return, the playlist
\* subdirectory created and the rewritten output template are inside the
\* job directory, and so is every file the playlist job has downloaded
\* when it is classified.
C26_PlaylistFolderInsideJobDir ==
    \A id \in JobIds :
        jobs[id].folder # NoneVal =>
            /\ IsInside(Resolve(jobs[id].folder), Resolve(JobDir(id)))
            /\ Resolve(jobs[id].folder) \in dirs
            /\ jobs[id].pc = "respond" =>
                   \A f \in FilesIn(files, Resolve(ResultDir(id))) :
                       IsInside(f, Resolve(JobDir(id)))

\* extensions that are neither known media, nor sidecar/noise, nor subtitles
C27_Unrecognised(name) ==
    Suffix(name) \notin DL_MEDIA_EXTS \cup SKIP_EXTS \cup SUBTITLE_EXTS

\* C27: when a successful engine run leaves no file with a known media
\* extension but a file with an unrecognised one, the job does not fail
\* and that file is returned; and a file with an unrecognised extension is
\* listed in a manifest only when the manifest lists no known media file.
C27_FallbackArtifact ==
    [][\A id \in JobIds :
          LET found == FilesIn(files, Resolve(ResultDir(id)))
          IN /\ (/\ jobs[id].pc = "scan" /\ jobs'[id] # jobs[id]
                 /\ \A f \in found : Suffix(Name(f)) \notin DL_MEDIA_EXTS
                 /\ \E f \in found : C27_Unrecognised(Name(f))) =>
                    /\ jobs'[id].pc = "respond"
                    /\ \E f \in found : C27_Unrecognised(Name(f)) /\ jobs'[id].ret = f
             /\ \A i \in 1..Len(jobs'[id].listed) :
                    C27_Unrecognised(jobs'[id].listed[i].filename) =>
                        \A k \in 1..Len(jobs'[id].listed) :
                            Suffix(jobs'[id].listed[k].filename) \notin DL_MEDIA_EXTS]_vars

\* C30: within one job the probe completes before the first download
\* attempt starts, and the scan of the directory starts only after a
\* download attempt has succeeded: the engine invocations of a job are one
\* successful probe followed by download attempts, a job is at the scan
\* only with a successful last download attempt, and only the scan hands
\* a result to unidl.
C30_ProbeDownloadScanOrdered ==
    [][\A id \in JobIds :
          LET calls == jobs'[id].calls
              n == Len(calls)
          IN /\ n > 0 => calls[1].mode = "probe"
             /\ \A i \in 2..n : calls[i].mode = "download" /\ calls[1].outcome = "ok"
             /\ jobs'[id].pc = "scan" =>
                    n > 1 /\ calls[n].mode = "download" /\ calls[n].outcome = "ok"
             /\ (jobs'[id].pc = "respond" /\ jobs[id].pc # "respond") =>
                    jobs[id].pc = "scan"]_vars
C30_Witness ==
    \E id \in JobIds :
        /\ jobs[id].pc = "scan"
        /\ Len(jobs[id].calls) = 3
        /\ jobs[id].calls[2].outcome = "transient"
        /\ jobs[id].calls[3].outcome = "ok"

\* the post-processing steps that convert audio
C28_AudioSteps == {i \in 1..Len(opts.postprocessors) :
                      opts.postprocessors[i].key \in {"FFmpegExtractAudio", "FFmpegAudioConvertor"}}

\* C28: for every request with extract_audio set and no raw format, the
\* built options select audio first and have exactly one audio-conversion
\* post-processing step, which carries a codec and a quality, whether or
\* not the request names an audio_format or an audio_quality.
C28_AudioExtraction ==
    (opts.built /\ reqFormat.extract_audio /\ ~Given(reqFormat.format)) =>
        /\ opts.format # <<>> /\ opts.format[1].streams = "bestaudio"
        /\ Cardinality(C28_AudioSteps) = 1
        /\ \A i \in C28_AudioSteps :
               /\ opts.postprocessors[i].preferredcodec # ""
               /\ opts.postprocessors[i].preferredquality # ""

\* the height of a tier that limits it
C29_Height(tier) == CASE tier = "1080p" -> 1080 [] tier = "720p" -> 720 [] tier = "480p" -> 480

\* C29: for every request without a raw format and without audio
\* extraction, the format selector is that of the requested tier (720p
\* when none is given): every alternative but the last limits the height to
\* the tier's for 1080p/720p/480p, and the last alternative is the
\* unfiltered "best", whatever the other fields are, video_codec included.
C29_TierLadder ==
    (/\ opts.built /\ ~Given(reqFormat.format)
     /\ ~reqFormat.extract_audio /\ reqFormat.quality # "audio") =>
        LET tier == IF reqFormat.quality = Unset THEN "720p" ELSE reqFormat.quality
            n == Len(opts.format)
        IN /\ n > 0 /\ opts.format[n] = [streams |-> "best", height |-> 0, vcodec |-> ""]
           /\ tier \in {"1080p", "720p", "480p"} =>
                  /\ n > 1
                  /\ \A i \in 1..(n - 1) : opts.format[i].height = C29_Height(tier)

\* every job ID in the job table maps to its own job directory, which exists
C21_TableMapsToOwnDir ==
    \A id \in DOMAIN active_downloads :
        active_downloads[id] = JobDir(id) /\ JobDir(id) \in dirs

\* the directory tree and the files the job directory of download_id holds
C21_Tree(ds, fs, download_id) ==
    <<TreeDirs(ds, JobDir(download_id)), FilesUnder(fs, JobDir(download_id))>>

====
